---- MODULE Spec2Model ----
(***************************************************************************)
(* State-machine model of mev-relay-rs/src/service.rs: Service::from,      *)
(* Service::spawn (bootstrap, the API server task, the slot-notification   *)
(* task) and the ServiceHandle future that joins the two tasks.            *)
(***************************************************************************)
EXTENDS Integers, Sequences, FiniteSets, TLC

\* ------------------------------------------------------------- bounds
\* Largest slot number the clock's stream produces in the model.
MaxSlot == 4
\* Largest distance between two consecutive slots of the stream.
MaxGap == 2
\* Slots per epoch of the network context (clock.epoch_for divides by it).
SlotsPerEpoch == 2
\* Largest epoch clock.current_epoch() reports when the slot task starts.
MaxStartEpoch == 1
\* Number of builder-API requests the server task serves in the model.
MaxRequests == 1

\* -------------------------------------------------------------- state
VARIABLES
    svc,            \* Service::from: "none" | "built" | "panicked"
    spawnPc,        \* position of Service::spawn
    spawnErr,       \* the Error spawn returned, or "none"
    genesisFetched, \* get_genesis_details() returned Ok
    relayNew,       \* number of Relay::new calls
    initCalls,      \* number of relay.initialize() calls
    initDone,       \* number of relay.initialize() calls that completed
    serverTask,     \* JoinHandle state of the API server task
    apiServed,      \* API requests served by the server task
    relayTask,      \* JoinHandle state of the slot-notification task
    loopPc,         \* position of the slot task's body
    startEpoch,     \* what clock.current_epoch() returned at loop start (-1: not read)
    current_epoch,  \* the loop's current_epoch
    next_epoch,     \* the loop's next_epoch flag
    produced,       \* slots yielded so far by clock.stream_slots()
    calls,          \* relay.on_slot calls issued so far: [slot, flag]
    inflight,       \* relay.on_slot calls issued and not yet completed
    handleState,    \* ServiceHandle: "none" | "held" | "awaiting" | "resolved" | "dropped"
    result,         \* what the ServiceHandle resolved with, or "none"
    resolveCount,   \* number of polls that returned Poll::Ready
    polls,          \* ServiceHandle::poll invocations
    relayPolls,     \* polls of the relay JoinHandle
    serverPolls,    \* polls of the server JoinHandle
    wakerRelay,     \* the relay JoinHandle holds the awaiting caller's waker
    wakerServer,    \* the server JoinHandle holds the awaiting caller's waker
    woken,          \* the awaiting caller is scheduled to poll the handle
    firstDone,      \* which task completed first: "none" | "relay" | "server"
    config,         \* the Config consumed by Service::from, or "none"
    cfgSource,      \* how that Config was made: "none" | "default" | "override"
    beaconQueries,  \* requests issued to the beacon node
    relayStore,     \* state of each constructed Relay instance (last slot notified)
    loopRelay,      \* instance the slot task's relay handle refers to (0: none)
    serverRelay,    \* instance the server's block_provider refers to (0: none)
    apiSeen,        \* relay state the last API request observed (-2: no request yet)
    slotAfterRelease, \* an on_slot call was issued after the handle resolved or dropped
    apiAfterRelease,  \* an API request was served after the handle resolved or dropped
    epochMissing,   \* clock.current_epoch() returned None at task start
    streamClosed    \* the slot stream has no further slot to yield

bootVars == <<svc, spawnPc, spawnErr, genesisFetched, relayNew, initCalls, initDone>>
serverVars == <<serverTask, apiServed>>
loopVars == <<loopPc, startEpoch, current_epoch, next_epoch, produced, calls, inflight>>
handleVars == <<handleState, result, resolveCount, polls, relayPolls, serverPolls,
                wakerRelay, wakerServer>>
cfgVars == <<config, cfgSource, beaconQueries>>
relayVars == <<relayStore, loopRelay, serverRelay, apiSeen>>
traceVars == <<slotAfterRelease, apiAfterRelease, epochMissing, streamClosed>>
vars == <<bootVars, serverVars, relayTask, loopVars, handleVars, woken, firstDone,
          cfgVars, relayVars, traceVars>>

\* ------------------------------------------------------------ helpers
Finished == {"Ok", "Panic", "Cancelled"}

\* clock.epoch_for(slot)
epoch_for(slot) == slot \div SlotsPerEpoch

\* Output of a completed JoinHandle<()>: Ok(()) or Err(JoinError).
JoinResult(task) ==
    CASE task = "Ok" -> "Ok"
      [] task = "Panic" -> "JoinError(Panic)"
      [] task = "Cancelled" -> "JoinError(Cancelled)"

\* JoinHandle::poll: Ready(output) once the task has completed, else Pending.
PollJoin(task) == IF task \in Finished THEN JoinResult(task) ELSE "Pending"

\* A completing task wakes the waker its JoinHandle holds.
Notify(waker) == woken' = (woken \/ (waker /\ handleState = "awaiting"))

\* Records which task completed first.
MarkDone(who) == firstDone' = IF firstDone = "none" THEN who ELSE firstDone

\* Slots the stream may yield next: strictly above the last one yielded.
NextSlots ==
    IF produced = <<>> THEN 0 .. MaxGap
    ELSE { s \in 0 .. MaxSlot :
             /\ s > produced[Len(produced)]
             /\ s <= produced[Len(produced)] + MaxGap }

\* --------------------------------------------------------------- Init
Init ==
    /\ svc = "none"
    /\ spawnPc = "idle"
    /\ spawnErr = "none"
    /\ genesisFetched = FALSE
    /\ relayNew = 0
    /\ initCalls = 0
    /\ initDone = 0
    /\ serverTask = "none"
    /\ apiServed = 0
    /\ relayTask = "none"
    /\ loopPc = "unspawned"
    /\ startEpoch = -1
    /\ current_epoch = 0
    /\ next_epoch = FALSE
    /\ produced = <<>>
    /\ calls = <<>>
    /\ inflight = 0
    /\ handleState = "none"
    /\ result = "none"
    /\ resolveCount = 0
    /\ polls = 0
    /\ relayPolls = 0
    /\ serverPolls = 0
    /\ wakerRelay = FALSE
    /\ wakerServer = FALSE
    /\ woken = FALSE
    /\ firstDone = "none"
    /\ config = "none"
    /\ cfgSource = "none"
    /\ beaconQueries = 0
    /\ relayStore = <<>>
    /\ loopRelay = 0
    /\ serverRelay = 0
    /\ apiSeen = -2
    /\ slotAfterRelease = FALSE
    /\ apiAfterRelease = FALSE
    /\ epochMissing = FALSE
    /\ streamClosed = FALSE

\* ---------------------------------------------------- Config::default
\* Config::default with another port.
ConfigDefaultOtherPort ==
    [host |-> <<127, 0, 0, 1>>, port |-> 18550,
     beacon_node_url |-> "http://127.0.0.1:5052", secret_key |-> "default"]

\* Lines 23-32: Ipv4Addr::LOCALHOST, 28545, "http://127.0.0.1:5052" and the
\* default secret key.
ConfigDefault ==
    [host |-> <<127, 0, 0, 1>>, port |-> 28545,
     beacon_node_url |-> "http://127.0.0.1:5052", secret_key |-> "default"]

\* A Config deserialized from a file, with a URL that does not parse.
Overrides ==
    { [host |-> <<0, 0, 0, 0>>, port |-> 18550,
       beacon_node_url |-> "not a url", secret_key |-> "sk"] }

\* Line 44: str::parse::<Url> succeeds on an absolute URL.
UrlParses(url) == url \in {"http://127.0.0.1:5052", "http://localhost:5052"}

\* ------------------------------------------------------ Service::from
\* From with the URL kept as a string and parsed later: a Service is built
\* from any Config.
FromDeferParse(cfg, source) ==
    /\ svc = "none"
    /\ config' = cfg
    /\ cfgSource' = source
    /\ svc' = "built"
    /\ UNCHANGED <<spawnPc, spawnErr, genesisFetched, relayNew, initCalls, initDone,
                   serverVars, relayTask, loopVars, handleVars, woken, firstDone,
                   beaconQueries, relayVars, traceVars>>

\* Lines 43-53: config.beacon_node_url.parse().unwrap() panics on a
\* malformed URL; otherwise the client is built and the fields stored.
From(cfg, source) ==
    /\ svc = "none"
    /\ config' = cfg
    /\ cfgSource' = source
    /\ svc' = IF UrlParses(cfg.beacon_node_url) THEN "built" ELSE "panicked"
    /\ UNCHANGED <<beaconQueries, relayVars, traceVars>>
    /\ UNCHANGED <<spawnPc, spawnErr, genesisFetched, relayNew, initCalls, initDone,
                   serverVars, relayTask, loopVars, handleVars, woken, firstDone>>

\* ----------------------------------------------------- Service::spawn
\* Lines 58-67: resolve the context (Context::try_from(&network)? when none
\* is given), resolve the clock, issue get_genesis_details() and await it.
SpawnStart(ctxGiven, deriveOk) ==
    /\ svc = "built"
    /\ spawnPc = "idle"
    /\ IF ctxGiven \/ deriveOk
       THEN /\ spawnPc' = "genesis"
            /\ spawnErr' = "none"
            /\ beaconQueries' = beaconQueries + 1
       ELSE /\ spawnPc' = "err"
            /\ spawnErr' = "ContextError"
            /\ UNCHANGED beaconQueries
    /\ UNCHANGED <<svc, genesisFetched, relayNew, initCalls, initDone,
                   serverVars, relayTask, loopVars, handleVars, woken, firstDone>>
    /\ UNCHANGED <<config, cfgSource, relayStore, loopRelay, serverRelay,
                   apiSeen, slotAfterRelease, apiAfterRelease, epochMissing,
                   streamClosed>>

\* GenesisReply with the Relay constructed and initialize() called before the
\* result of the genesis fetch is examined.
GenesisReplyRelayFirst(ok) ==
    /\ spawnPc = "genesis"
    /\ relayNew' = relayNew + 1
    /\ relayStore' = Append(relayStore, -1)
    /\ loopRelay' = Len(relayStore) + 1
    /\ initCalls' = initCalls + 1
    /\ IF ok
       THEN /\ genesisFetched' = TRUE
            /\ spawnPc' = "init"
            /\ spawnErr' = "none"
       ELSE /\ spawnPc' = "err"
            /\ spawnErr' = "BeaconNodeError"
            /\ UNCHANGED genesisFetched
    /\ UNCHANGED <<svc, initDone, serverVars, relayTask, loopVars, handleVars,
                   woken, firstDone>>
    /\ UNCHANGED <<config, cfgSource, beaconQueries, serverRelay, apiSeen,
                   slotAfterRelease, apiAfterRelease, epochMissing,
                   streamClosed>>

\* Lines 67-70: get_genesis_details().await? returns; on Ok the Relay is
\* constructed and relay.initialize() is called and awaited.
GenesisReply(ok) ==
    /\ spawnPc = "genesis"
    /\ IF ok
       THEN /\ genesisFetched' = TRUE
            /\ relayNew' = relayNew + 1
            /\ relayStore' = Append(relayStore, -1)
            /\ loopRelay' = Len(relayStore) + 1
            /\ initCalls' = initCalls + 1
            /\ spawnPc' = "init"
            /\ spawnErr' = "none"
       ELSE /\ spawnPc' = "err"
            /\ spawnErr' = "BeaconNodeError"
            /\ UNCHANGED <<genesisFetched, relayNew, relayStore, loopRelay, initCalls>>
    /\ UNCHANGED <<svc, initDone, serverVars, relayTask, loopVars, handleVars,
                   woken, firstDone>>
    /\ UNCHANGED <<config, cfgSource, beaconQueries, serverRelay, apiSeen,
                   slotAfterRelease, apiAfterRelease, epochMissing,
                   streamClosed>>

\* Relay::clone: the clone is a second handle to the same Relay instance.
RelayClone(id) == id

\* Effect of relay.on_slot(slot, flag) on the instance: it records the slot.
OnSlotEffect(store, id, slot) == [store EXCEPT ![id] = slot]

\* InitializeDone with the server given a Relay of its own, constructed
\* anew, in place of a clone of the initialized one.
InitializeDoneSecondRelay ==
    /\ spawnPc = "init"
    /\ initDone' = initDone + 1
    /\ relayStore' = Append(relayStore, -1)
    /\ serverRelay' = Len(relayStore) + 1
    /\ serverTask' = "running"
    /\ spawnPc' = "server_spawned"
    /\ UNCHANGED <<svc, spawnErr, genesisFetched, relayNew, initCalls, apiServed,
                   relayTask, loopVars, handleVars, woken, firstDone>>
    /\ UNCHANGED <<config, cfgSource, beaconQueries, loopRelay, apiSeen,
                   slotAfterRelease, apiAfterRelease, epochMissing, streamClosed>>

\* InitializeDone with initialize() not awaited: the server is spawned while
\* the initialize() call has not completed.
InitializeNotAwaited ==
    /\ spawnPc = "init"
    /\ serverRelay' = RelayClone(loopRelay)
    /\ serverTask' = "running"
    /\ spawnPc' = "server_spawned"
    /\ UNCHANGED <<svc, spawnErr, genesisFetched, relayNew, initCalls, initDone,
                   apiServed, relayTask, loopVars, handleVars, woken, firstDone>>
    /\ UNCHANGED <<config, cfgSource, beaconQueries, relayStore, loopRelay,
                   apiSeen, slotAfterRelease, apiAfterRelease, epochMissing,
                   streamClosed>>

\* Lines 70-73: relay.initialize().await completes; the relay is cloned and
\* BlindedBlockProviderServer::new(host, port, block_provider).spawn() runs.
InitializeDone ==
    /\ spawnPc = "init"
    /\ initDone' = initDone + 1
    /\ serverRelay' = RelayClone(loopRelay)
    /\ serverTask' = "running"
    /\ spawnPc' = "server_spawned"
    /\ UNCHANGED <<svc, spawnErr, genesisFetched, relayNew, initCalls, apiServed,
                   relayTask, loopVars, handleVars, woken, firstDone>>
    /\ UNCHANGED <<config, cfgSource, beaconQueries, relayStore, loopRelay,
                   apiSeen, slotAfterRelease, apiAfterRelease, epochMissing,
                   streamClosed>>

\* SpawnRelayTask with a fallible step between the two spawns: spawn may
\* return an error while the server task is already running.
SpawnRelayTaskFallible ==
    /\ spawnPc = "server_spawned"
    /\ \/ /\ relayTask' = "running"
          /\ loopPc' = "start"
          /\ spawnPc' = "relay_spawned"
          /\ UNCHANGED spawnErr
       \/ /\ spawnPc' = "err"
          /\ spawnErr' = "BeaconNodeError"
          /\ UNCHANGED <<relayTask, loopPc>>
    /\ UNCHANGED <<handleState, svc, genesisFetched, relayNew, initCalls, initDone,
                   serverVars, startEpoch, current_epoch, next_epoch, produced,
                   calls, inflight, result, resolveCount, polls, relayPolls, serverPolls,
                   wakerRelay, wakerServer, woken, firstDone>>
    /\ UNCHANGED <<config, cfgSource, beaconQueries, relayStore, loopRelay,
                   serverRelay, apiSeen, slotAfterRelease, apiAfterRelease,
                   epochMissing, streamClosed>>

\* Lines 75-90: tokio::spawn of the slot task; the task may run from here
\* on, on another worker, while spawn has not returned yet.
SpawnRelayTask ==
    /\ spawnPc = "server_spawned"
    /\ relayTask' = "running"
    /\ loopPc' = "start"
    /\ spawnPc' = "relay_spawned"
    /\ UNCHANGED <<handleState, svc, spawnErr, genesisFetched, relayNew, initCalls, initDone,
                   serverVars, startEpoch, current_epoch, next_epoch, produced,
                   calls, inflight, result, resolveCount, polls, relayPolls, serverPolls,
                   wakerRelay, wakerServer, woken, firstDone>>
    /\ UNCHANGED <<config, cfgSource, beaconQueries, relayStore, loopRelay,
                   serverRelay, apiSeen, slotAfterRelease, apiAfterRelease,
                   epochMissing, streamClosed>>

\* Line 92: spawn returns Ok(ServiceHandle { relay, server }) to its caller.
ReturnHandle ==
    /\ spawnPc = "relay_spawned"
    /\ spawnPc' = "ok"
    /\ handleState' = "held"
    /\ UNCHANGED <<svc, spawnErr, genesisFetched, relayNew, initCalls, initDone,
                   serverVars, relayTask, loopVars, result, resolveCount, polls,
                   relayPolls, serverPolls, wakerRelay, wakerServer, woken, firstDone,
                   cfgVars, relayVars, traceVars>>

\* ------------------------------------------------- the API server task
\* The server task serves a builder-API request against its relay handle.
ApiRequest ==
    /\ serverTask = "running"
    /\ apiServed < MaxRequests
    /\ apiServed' = apiServed + 1
    /\ apiSeen' = relayStore[serverRelay]
    /\ apiAfterRelease' = (apiAfterRelease \/ handleState \in {"resolved", "dropped"})
    /\ UNCHANGED <<bootVars, serverTask, relayTask, loopVars, handleVars, woken,
                   firstDone>>
    /\ UNCHANGED <<config, cfgSource, beaconQueries, relayStore, loopRelay,
                   serverRelay, slotAfterRelease, epochMissing, streamClosed>>

\* The server task ends: it returns, panics, or is cancelled.
ServerComplete(outcome) ==
    /\ serverTask = "running"
    /\ serverTask' = outcome
    /\ Notify(wakerServer)
    /\ MarkDone("server")
    /\ UNCHANGED <<bootVars, apiServed, relayTask, loopVars, handleVars>>
    /\ UNCHANGED <<config, cfgSource, beaconQueries, relayStore, loopRelay,
                   serverRelay, apiSeen, slotAfterRelease, apiAfterRelease,
                   epochMissing, streamClosed>>

\* ------------------------------------------ the slot-notification task
\* LoopStart with the missing epoch replaced by a default (unwrap_or_default)
\* in place of the panic.
LoopStartDefaultEpoch(e) ==
    /\ relayTask = "running"
    /\ loopPc = "start"
    /\ epochMissing' = (epochMissing \/ e = -1)
    /\ startEpoch' = IF e = -1 THEN 0 ELSE e
    /\ current_epoch' = IF e = -1 THEN 0 ELSE e
    /\ next_epoch' = FALSE
    /\ loopPc' = "next"
    /\ UNCHANGED <<relayTask, woken, firstDone>>
    /\ UNCHANGED <<bootVars, serverVars, produced, calls, inflight, handleVars>>
    /\ UNCHANGED <<config, cfgSource, beaconQueries, relayStore, loopRelay,
                   serverRelay, apiSeen, slotAfterRelease, apiAfterRelease,
                   streamClosed>>

\* LoopStart with the flag initialised to true.
LoopStartFlagTrue(e) ==
    /\ relayTask = "running"
    /\ loopPc = "start"
    /\ IF e = -1
       THEN /\ epochMissing' = TRUE
            /\ relayTask' = "Panic"
            /\ loopPc' = "end"
            /\ Notify(wakerRelay)
            /\ MarkDone("relay")
            /\ UNCHANGED <<startEpoch, current_epoch, next_epoch>>
       ELSE /\ startEpoch' = e
            /\ current_epoch' = e
            /\ next_epoch' = TRUE
            /\ loopPc' = "next"
            /\ UNCHANGED <<relayTask, woken, firstDone, epochMissing>>
    /\ UNCHANGED <<bootVars, serverVars, produced, calls, inflight, handleVars>>
    /\ UNCHANGED <<config, cfgSource, beaconQueries, relayStore, loopRelay,
                   serverRelay, apiSeen, slotAfterRelease, apiAfterRelease,
                   streamClosed>>

\* Lines 76-81: clock.current_epoch().expect("after genesis"); None panics.
LoopStart(e) ==
    /\ relayTask = "running"
    /\ loopPc = "start"
    /\ IF e = -1
       THEN /\ epochMissing' = TRUE
            /\ relayTask' = "Panic"
            /\ loopPc' = "end"
            /\ Notify(wakerRelay)
            /\ MarkDone("relay")
            /\ UNCHANGED <<startEpoch, current_epoch, next_epoch>>
       ELSE /\ startEpoch' = e
            /\ current_epoch' = e
            /\ next_epoch' = FALSE
            /\ loopPc' = "next"
            /\ UNCHANGED <<relayTask, woken, firstDone, epochMissing>>
    /\ UNCHANGED <<bootVars, serverVars, produced, calls, inflight, handleVars>>
    /\ UNCHANGED <<config, cfgSource, beaconQueries, relayStore, loopRelay,
                   serverRelay, apiSeen, slotAfterRelease, apiAfterRelease,
                   streamClosed>>

\* LoopIter with relay.on_slot not awaited: the next slot is taken while the
\* previous call is still running.
LoopIterNoAwait(slot) ==
    /\ relayTask = "running"
    /\ loopPc \in {"next", "on_slot"}
    /\ ~streamClosed
    /\ slot \in NextSlots
    /\ produced' = Append(produced, slot)
    /\ LET epoch == epoch_for(slot)
           advanced == epoch > current_epoch
       IN /\ current_epoch' = IF advanced THEN epoch ELSE current_epoch
          /\ next_epoch' = IF advanced THEN TRUE ELSE next_epoch
          /\ calls' = Append(calls, [slot |-> slot,
                                     flag |-> IF advanced THEN TRUE ELSE next_epoch])
    /\ inflight' = inflight + 1
    /\ loopPc' = "on_slot"
    /\ relayStore' = OnSlotEffect(relayStore, loopRelay, slot)
    /\ slotAfterRelease' = (slotAfterRelease \/ handleState \in {"resolved", "dropped"})
    /\ UNCHANGED <<bootVars, serverVars, relayTask, startEpoch, handleVars, woken,
                   firstDone>>
    /\ UNCHANGED <<config, cfgSource, beaconQueries, loopRelay, serverRelay,
                   apiSeen, apiAfterRelease, epochMissing, streamClosed>>

\* LoopIter with relay.on_slot called only inside the epoch-advance branch:
\* slots that do not advance the epoch are consumed without a call.
LoopIterOnlyOnAdvance(slot) ==
    /\ relayTask = "running"
    /\ loopPc = "next"
    /\ ~streamClosed
    /\ slot \in NextSlots
    /\ produced' = Append(produced, slot)
    /\ LET epoch == epoch_for(slot)
           advanced == epoch > current_epoch
       IN IF advanced
          THEN /\ current_epoch' = epoch
               /\ next_epoch' = TRUE
               /\ calls' = Append(calls, [slot |-> slot, flag |-> TRUE])
               /\ inflight' = inflight + 1
               /\ loopPc' = "on_slot"
               /\ relayStore' = OnSlotEffect(relayStore, loopRelay, slot)
               /\ slotAfterRelease' =
                      (slotAfterRelease \/ handleState \in {"resolved", "dropped"})
          ELSE UNCHANGED <<current_epoch, next_epoch, calls, inflight, loopPc,
                           relayStore, slotAfterRelease>>
    /\ UNCHANGED <<bootVars, serverVars, relayTask, startEpoch, handleVars, woken,
                   firstDone>>
    /\ UNCHANGED <<config, cfgSource, beaconQueries, loopRelay, serverRelay,
                   apiSeen, apiAfterRelease, epochMissing, streamClosed>>

\* LoopIter with the epochs compared by != in place of >.
LoopIterNotEqual(slot) ==
    /\ relayTask = "running"
    /\ loopPc = "next"
    /\ ~streamClosed
    /\ slot \in NextSlots
    /\ produced' = Append(produced, slot)
    /\ LET epoch == epoch_for(slot)
           advanced == epoch # current_epoch
       IN /\ current_epoch' = IF advanced THEN epoch ELSE current_epoch
          /\ next_epoch' = IF advanced THEN TRUE ELSE next_epoch
          /\ calls' = Append(calls, [slot |-> slot,
                                     flag |-> IF advanced THEN TRUE ELSE next_epoch])
    /\ inflight' = inflight + 1
    /\ loopPc' = "on_slot"
    /\ relayStore' = OnSlotEffect(relayStore, loopRelay, slot)
    /\ slotAfterRelease' = (slotAfterRelease \/ handleState \in {"resolved", "dropped"})
    /\ UNCHANGED <<bootVars, serverVars, relayTask, startEpoch, handleVars, woken,
                   firstDone>>
    /\ UNCHANGED <<config, cfgSource, beaconQueries, loopRelay, serverRelay,
                   apiSeen, apiAfterRelease, epochMissing, streamClosed>>

\* Lines 82-88: slots.next().await yields Some(slot); the epoch is compared
\* and relay.on_slot(slot, next_epoch) is called and awaited.
LoopIter(slot) ==
    /\ relayTask = "running"
    /\ loopPc = "next"
    /\ ~streamClosed
    /\ slot \in NextSlots
    /\ produced' = Append(produced, slot)
    /\ LET epoch == epoch_for(slot)
           advanced == epoch > current_epoch
       IN /\ current_epoch' = IF advanced THEN epoch ELSE current_epoch
          /\ next_epoch' = IF advanced THEN TRUE ELSE next_epoch
          /\ calls' = Append(calls, [slot |-> slot,
                                     flag |-> IF advanced THEN TRUE ELSE next_epoch])
    /\ inflight' = inflight + 1
    /\ loopPc' = "on_slot"
    /\ relayStore' = OnSlotEffect(relayStore, loopRelay, slot)
    /\ slotAfterRelease' = (slotAfterRelease \/ handleState \in {"resolved", "dropped"})
    /\ UNCHANGED <<bootVars, serverVars, relayTask, startEpoch, handleVars, woken,
                   firstDone>>
    /\ UNCHANGED <<config, cfgSource, beaconQueries, loopRelay, serverRelay,
                   apiSeen, apiAfterRelease, epochMissing, streamClosed>>

\* OnSlotReturn for a body that runs once (if let in place of while let):
\* the task returns after the first on_slot call.
OnSlotReturnOnce ==
    /\ relayTask = "running"
    /\ loopPc = "on_slot"
    /\ inflight' = inflight - 1
    /\ loopPc' = "end"
    /\ relayTask' = "Ok"
    /\ Notify(wakerRelay)
    /\ MarkDone("relay")
    /\ UNCHANGED <<bootVars, serverVars, startEpoch, current_epoch,
                   next_epoch, produced, calls, handleVars>>
    /\ UNCHANGED <<config, cfgSource, beaconQueries, relayStore, loopRelay,
                   serverRelay, apiSeen, slotAfterRelease, apiAfterRelease,
                   epochMissing, streamClosed>>

\* Line 88: the awaited relay.on_slot call completes.
OnSlotReturn ==
    /\ relayTask = "running"
    /\ loopPc = "on_slot"
    /\ inflight' = inflight - 1
    /\ loopPc' = "next"
    /\ UNCHANGED <<bootVars, serverVars, relayTask, startEpoch, current_epoch,
                   next_epoch, produced, calls, handleVars, woken, firstDone>>
    /\ UNCHANGED <<config, cfgSource, beaconQueries, relayStore, loopRelay,
                   serverRelay, apiSeen, slotAfterRelease, apiAfterRelease,
                   epochMissing, streamClosed>>

\* Lines 76, 82: the stream made by clock.stream_slots() runs out: its next
\* poll yields None.
CloseStream ==
    /\ relayTask = "running"
    /\ loopPc \in {"next", "on_slot"}
    /\ ~streamClosed
    /\ streamClosed' = TRUE
    /\ UNCHANGED <<bootVars, serverVars, relayTask, loopVars, handleVars, woken,
                   firstDone, cfgVars, relayVars, slotAfterRelease, apiAfterRelease,
                   epochMissing>>

\* Line 82: slots.next().await yields None; the task body returns.
StreamEnd ==
    /\ relayTask = "running"
    /\ loopPc = "next"
    /\ streamClosed
    /\ relayTask' = "Ok"
    /\ loopPc' = "end"
    /\ Notify(wakerRelay)
    /\ MarkDone("relay")
    /\ UNCHANGED <<bootVars, serverVars, startEpoch, current_epoch, next_epoch,
                   produced, calls, inflight, handleVars>>
    /\ UNCHANGED <<config, cfgSource, beaconQueries, relayStore, loopRelay,
                   serverRelay, apiSeen, slotAfterRelease, apiAfterRelease,
                   epochMissing, streamClosed>>

\* The slot task is cancelled from outside (runtime shutdown) at a
\* suspension point; a pending on_slot future is dropped with it.
CancelRelay ==
    /\ relayTask = "running"
    /\ loopPc \in {"start", "next", "on_slot"}
    /\ relayTask' = "Cancelled"
    /\ loopPc' = "end"
    /\ inflight' = 0
    /\ Notify(wakerRelay)
    /\ MarkDone("relay")
    /\ UNCHANGED <<bootVars, serverVars, startEpoch, current_epoch, next_epoch,
                   produced, calls, handleVars>>
    /\ UNCHANGED <<config, cfgSource, beaconQueries, relayStore, loopRelay,
                   serverRelay, apiSeen, slotAfterRelease, apiAfterRelease,
                   epochMissing, streamClosed>>

\* ------------------------------------------------------ ServiceHandle
\* The caller awaits the handle; the first poll is scheduled.
Await ==
    /\ handleState = "held"
    /\ handleState' = "awaiting"
    /\ woken' = TRUE
    /\ UNCHANGED <<bootVars, serverVars, relayTask, loopVars, result, resolveCount,
                   polls, relayPolls, serverPolls, wakerRelay, wakerServer, firstDone>>
    /\ UNCHANGED <<config, cfgSource, beaconQueries, relayStore, loopRelay,
                   serverRelay, apiSeen, slotAfterRelease, apiAfterRelease,
                   epochMissing, streamClosed>>

\* Poll with the server JoinHandle polled before the relay JoinHandle.
PollServerFirst ==
    /\ handleState = "awaiting"
    /\ woken
    /\ woken' = FALSE
    /\ polls' = polls + 1
    /\ serverPolls' = serverPolls + 1
    /\ LET server == PollJoin(serverTask)
       IN IF server # "Pending"
          THEN /\ result' = server
               /\ handleState' = "resolved"
               /\ resolveCount' = resolveCount + 1
               /\ wakerRelay' = FALSE
               /\ wakerServer' = FALSE
               /\ UNCHANGED relayPolls
          ELSE /\ relayPolls' = relayPolls + 1
               /\ LET relay == PollJoin(relayTask)
                  IN IF relay # "Pending"
                     THEN /\ result' = relay
                          /\ handleState' = "resolved"
                          /\ resolveCount' = resolveCount + 1
                          /\ wakerRelay' = FALSE
                          /\ wakerServer' = FALSE
                     ELSE /\ wakerRelay' = TRUE
                          /\ wakerServer' = TRUE
                          /\ UNCHANGED <<result, handleState, resolveCount>>
    /\ UNCHANGED <<bootVars, serverVars, relayTask, loopVars, firstDone>>
    /\ UNCHANGED <<config, cfgSource, beaconQueries, relayStore, loopRelay,
                   serverRelay, apiSeen, slotAfterRelease, apiAfterRelease,
                   epochMissing, streamClosed>>

\* Poll as a race: both JoinHandles are polled and the handle resolves with
\* the outcome of the task that completed first.
PollFirstCompleted ==
    /\ handleState = "awaiting"
    /\ woken
    /\ woken' = FALSE
    /\ polls' = polls + 1
    /\ relayPolls' = relayPolls + 1
    /\ serverPolls' = serverPolls + 1
    /\ IF firstDone # "none"
       THEN /\ result' = IF firstDone = "relay" THEN PollJoin(relayTask)
                                                ELSE PollJoin(serverTask)
            /\ handleState' = "resolved"
            /\ resolveCount' = resolveCount + 1
            /\ wakerRelay' = FALSE
            /\ wakerServer' = FALSE
       ELSE /\ wakerRelay' = TRUE
            /\ wakerServer' = TRUE
            /\ UNCHANGED <<result, handleState, resolveCount>>
    /\ UNCHANGED <<bootVars, serverVars, relayTask, loopVars, firstDone>>
    /\ UNCHANGED <<config, cfgSource, beaconQueries, relayStore, loopRelay,
                   serverRelay, apiSeen, slotAfterRelease, apiAfterRelease,
                   epochMissing, streamClosed>>

\* Poll that returns Pending while the relay task runs, without polling the
\* server JoinHandle.
PollServerIgnored ==
    /\ handleState = "awaiting"
    /\ woken
    /\ woken' = FALSE
    /\ polls' = polls + 1
    /\ relayPolls' = relayPolls + 1
    /\ LET relay == PollJoin(relayTask)
       IN IF relay # "Pending"
          THEN /\ result' = relay
               /\ handleState' = "resolved"
               /\ resolveCount' = resolveCount + 1
               /\ wakerRelay' = FALSE
               /\ wakerServer' = FALSE
          ELSE /\ wakerRelay' = TRUE
               /\ UNCHANGED <<result, handleState, resolveCount, wakerServer>>
    /\ UNCHANGED <<bootVars, serverVars, relayTask, loopVars, serverPolls, firstDone>>
    /\ UNCHANGED <<config, cfgSource, beaconQueries, relayStore, loopRelay,
                   serverRelay, apiSeen, slotAfterRelease, apiAfterRelease,
                   epochMissing, streamClosed>>

\* Poll that inspects the server JoinHandle without handing it the caller's
\* context: a pending server task holds no waker.
PollNoServerWaker ==
    /\ handleState = "awaiting"
    /\ woken
    /\ woken' = FALSE
    /\ polls' = polls + 1
    /\ relayPolls' = relayPolls + 1
    /\ LET relay == PollJoin(relayTask)
       IN IF relay # "Pending"
          THEN /\ result' = relay
               /\ handleState' = "resolved"
               /\ resolveCount' = resolveCount + 1
               /\ wakerRelay' = FALSE
               /\ wakerServer' = FALSE
               /\ UNCHANGED serverPolls
          ELSE /\ serverPolls' = serverPolls + 1
               /\ LET server == PollJoin(serverTask)
                  IN IF server # "Pending"
                     THEN /\ result' = server
                          /\ handleState' = "resolved"
                          /\ resolveCount' = resolveCount + 1
                          /\ wakerRelay' = FALSE
                          /\ wakerServer' = FALSE
                     ELSE /\ wakerRelay' = TRUE
                          /\ wakerServer' = FALSE
                          /\ UNCHANGED <<result, handleState, resolveCount>>
    /\ UNCHANGED <<bootVars, serverVars, relayTask, loopVars, firstDone>>
    /\ UNCHANGED <<config, cfgSource, beaconQueries, relayStore, loopRelay,
                   serverRelay, apiSeen, slotAfterRelease, apiAfterRelease,
                   epochMissing, streamClosed>>

\* Poll that aborts the task that did not win when it resolves.
PollAbortsLoser ==
    /\ handleState = "awaiting"
    /\ woken
    /\ woken' = FALSE
    /\ polls' = polls + 1
    /\ relayPolls' = relayPolls + 1
    /\ LET relay == PollJoin(relayTask)
       IN IF relay # "Pending"
          THEN /\ result' = relay
               /\ handleState' = "resolved"
               /\ resolveCount' = resolveCount + 1
               /\ wakerRelay' = FALSE
               /\ wakerServer' = FALSE
               /\ serverTask' = IF serverTask = "running" THEN "Cancelled"
                                                         ELSE serverTask
               /\ UNCHANGED <<serverPolls, relayTask, loopVars>>
          ELSE /\ serverPolls' = serverPolls + 1
               /\ LET server == PollJoin(serverTask)
                  IN IF server # "Pending"
                     THEN /\ result' = server
                          /\ handleState' = "resolved"
                          /\ resolveCount' = resolveCount + 1
                          /\ wakerRelay' = FALSE
                          /\ wakerServer' = FALSE
                          /\ relayTask' = "Cancelled"
                          /\ loopPc' = "end"
                          /\ inflight' = 0
                          /\ UNCHANGED <<serverTask, startEpoch, current_epoch,
                                         next_epoch, produced, calls>>
                     ELSE /\ wakerRelay' = TRUE
                          /\ wakerServer' = TRUE
                          /\ UNCHANGED <<result, handleState, resolveCount,
                                         serverTask, relayTask, loopVars>>
    /\ UNCHANGED <<bootVars, apiServed, firstDone>>
    /\ UNCHANGED <<config, cfgSource, beaconQueries, relayStore, loopRelay,
                   serverRelay, apiSeen, slotAfterRelease, apiAfterRelease,
                   epochMissing, streamClosed>>

\* Lines 110-117: ServiceHandle::poll. The relay JoinHandle is polled first
\* and a Ready result returned at once; only else is the server JoinHandle
\* polled. A JoinHandle polled while its task runs keeps the caller's waker.
Poll ==
    /\ handleState = "awaiting"
    /\ woken
    /\ woken' = FALSE
    /\ polls' = polls + 1
    /\ relayPolls' = relayPolls + 1
    /\ LET relay == PollJoin(relayTask)
       IN IF relay # "Pending"
          THEN /\ result' = relay
               /\ handleState' = "resolved"
               /\ resolveCount' = resolveCount + 1
               /\ wakerRelay' = FALSE
               /\ wakerServer' = FALSE
               /\ UNCHANGED serverPolls
          ELSE /\ serverPolls' = serverPolls + 1
               /\ LET server == PollJoin(serverTask)
                  IN IF server # "Pending"
                     THEN /\ result' = server
                          /\ handleState' = "resolved"
                          /\ resolveCount' = resolveCount + 1
                          /\ wakerRelay' = FALSE
                          /\ wakerServer' = FALSE
                     ELSE /\ wakerRelay' = TRUE
                          /\ wakerServer' = TRUE
                          /\ UNCHANGED <<result, handleState, resolveCount>>
    /\ UNCHANGED <<bootVars, serverVars, relayTask, loopVars, firstDone>>
    /\ UNCHANGED <<config, cfgSource, beaconQueries, relayStore, loopRelay,
                   serverRelay, apiSeen, slotAfterRelease, apiAfterRelease,
                   epochMissing, streamClosed>>

\* Drop with JoinHandles that abort their task when dropped.
DropAborts ==
    /\ handleState \in {"held", "awaiting"}
    /\ handleState' = "dropped"
    /\ wakerRelay' = FALSE
    /\ wakerServer' = FALSE
    /\ woken' = FALSE
    /\ relayTask' = IF relayTask = "running" THEN "Cancelled" ELSE relayTask
    /\ loopPc' = IF relayTask = "running" THEN "end" ELSE loopPc
    /\ inflight' = 0
    /\ serverTask' = IF serverTask = "running" THEN "Cancelled" ELSE serverTask
    /\ UNCHANGED <<bootVars, apiServed, startEpoch, current_epoch, next_epoch,
                   produced, calls, result, resolveCount, polls, relayPolls,
                   serverPolls, firstDone>>
    /\ UNCHANGED <<config, cfgSource, beaconQueries, relayStore, loopRelay,
                   serverRelay, apiSeen, slotAfterRelease, apiAfterRelease,
                   epochMissing, streamClosed>>

\* Lines 99-105: the caller drops the handle before it resolved: both
\* JoinHandles are dropped, which detaches the tasks.
Drop ==
    /\ handleState \in {"held", "awaiting"}
    /\ handleState' = "dropped"
    /\ wakerRelay' = FALSE
    /\ wakerServer' = FALSE
    /\ woken' = FALSE
    /\ UNCHANGED <<bootVars, serverVars, relayTask, loopVars, result, resolveCount,
                   polls, relayPolls, serverPolls, firstDone>>
    /\ UNCHANGED <<config, cfgSource, beaconQueries, relayStore, loopRelay,
                   serverRelay, apiSeen, slotAfterRelease, apiAfterRelease,
                   epochMissing, streamClosed>>

\* --------------------------------------------------------------- Spec
Next ==
    \/ From(ConfigDefault, "default")
    \/ \E cfg \in Overrides : From(cfg, "override")
    \/ \E ctxGiven \in BOOLEAN, deriveOk \in BOOLEAN : SpawnStart(ctxGiven, deriveOk)
    \/ \E ok \in BOOLEAN : GenesisReply(ok)
    \/ InitializeDone
    \/ SpawnRelayTask
    \/ ReturnHandle
    \/ ApiRequest
    \/ \E outcome \in Finished : ServerComplete(outcome)
    \/ \E e \in -1 .. MaxStartEpoch : LoopStart(e)
    \/ \E slot \in 0 .. MaxSlot : LoopIter(slot)
    \/ OnSlotReturn
    \/ CloseStream
    \/ StreamEnd
    \/ CancelRelay
    \/ Await
    \/ Poll
    \/ Drop

Spec == Init /\ [][Next]_vars

\* The awaiting caller, once woken, is polled by the scheduler.
FairSpec == Spec /\ WF_vars(Poll)

\* Every on_slot call returns, and the slot task is polled when its stream
\* is ready.
LoopFairSpec == Spec /\ WF_vars(OnSlotReturn) /\ WF_vars(StreamEnd)

\* ------------------------------------------------------------- claims
MaxOf(S) == CHOOSE x \in S : \A y \in S : y <= x

\* Largest epoch seen before the i-th on_slot call: the epoch read at loop
\* start and the epochs of the slots consumed before it.
EpochBefore(i) == MaxOf({startEpoch} \cup {epoch_for(calls[j].slot) : j \in 1 .. (i - 1)})

\* C1: on_slot receives the epoch-transition flag true exactly on the first
\* slot of each new epoch and false on every other slot (the flag is reset
\* after it has been reported for one slot).
C1_FlagOncePerEpoch ==
    \A i \in 1 .. Len(calls) :
        calls[i].flag = (epoch_for(calls[i].slot) > EpochBefore(i))

\* C2: when spawn has failed in bootstrap (context derivation or genesis
\* fetch), it returned an error and no task was started, no Relay was
\* constructed and initialize() was not called.
C2_BootstrapFailure ==
    spawnPc = "err" =>
        /\ spawnErr \in {"ContextError", "BeaconNodeError"}
        /\ serverTask = "none"
        /\ relayTask = "none"
        /\ relayNew = 0
        /\ initCalls = 0

C2_Witness == spawnPc = "err" /\ spawnErr = "BeaconNodeError" /\ svc = "built"

\* C3: once spawn has returned, either a handle was returned and both tasks
\* were started, or an error was returned and neither was; never exactly one.
C3_NoPartialHandle ==
    /\ spawnPc = "ok" =>
          handleState # "none" /\ serverTask # "none" /\ relayTask # "none"
    /\ spawnPc = "err" =>
          handleState = "none" /\ serverTask = "none" /\ relayTask = "none"
    /\ spawnPc \in {"ok", "err"} => ((serverTask = "none") <=> (relayTask = "none"))
    /\ handleState # "none" => spawnPc = "ok"

C3_Witness == spawnPc = "ok" /\ serverTask = "running" /\ relayTask = "running"

\* What a handle reports for a task in the given state.
OutcomeOf(task) ==
    IF task = "Ok" THEN "Ok"
    ELSE IF task = "Panic" THEN "JoinError(Panic)"
    ELSE IF task = "Cancelled" THEN "JoinError(Cancelled)"
    ELSE "none"

JoinErrors == {"JoinError(Panic)", "JoinError(Cancelled)"}

\* C4: a poll of the handle made when the relay task has completed returns
\* the relay task's outcome and does not poll the server task, whether the
\* server task is pending or has completed.
C4_RelayFirst ==
    [][(polls' # polls /\ relayTask \in Finished) =>
          /\ handleState' = "resolved"
          /\ result' = OutcomeOf(relayTask)
          /\ serverPolls' = serverPolls]_vars

C4_Witness ==
    /\ handleState = "resolved"
    /\ serverPolls = 0
    /\ firstDone = "server"
    /\ relayTask = "Panic"
    /\ serverTask = "Ok"
    /\ result = "JoinError(Panic)"

\* C5 as stated: the handle resolves exactly once, with the outcome of the
\* task that completed first.
C5_FirstCompletedWins ==
    handleState = "resolved" =>
        /\ resolveCount = 1
        /\ result = OutcomeOf(IF firstDone = "relay" THEN relayTask ELSE serverTask)

\* C5 as amended: the handle resolves at most once and keeps its outcome;
\* the outcome is the relay task's if the relay task has completed by the
\* resolving poll (even when the server task completed earlier), otherwise
\* the completed server task's.
C5_ResolvesOnceByPriority ==
    [][/\ resolveCount' <= 1
       /\ resolveCount' # resolveCount =>
             /\ handleState' = "resolved"
             /\ relayTask \in Finished \/ serverTask \in Finished
             /\ result' = IF relayTask \in Finished THEN OutcomeOf(relayTask)
                                                    ELSE OutcomeOf(serverTask)
       /\ handleState = "resolved" =>
             (handleState' = "resolved" /\ result' = result)]_vars

C5_Witness ==
    /\ handleState = "resolved"
    /\ resolveCount = 1
    /\ firstDone = "server"
    /\ serverTask = "Cancelled"
    /\ relayTask = "Ok"
    /\ result = "Ok"
    /\ polls = 2

\* C6 as stated: whenever the handle is polled after either task has failed
\* (panic or cancellation), the failure comes out as a JoinError of the
\* handle, never as success.
C6_EveryFailureSurfaced ==
    [][(polls' # polls /\ (relayTask \in {"Panic", "Cancelled"}
                           \/ serverTask \in {"Panic", "Cancelled"})) =>
          result' \in JoinErrors]_vars

\* C6 as amended: a poll made while the relay task runs yields the server task's poll
\* result: pending while the server runs, else the server's outcome; a
\* panic or cancellation of the task whose outcome the poll returns (the
\* relay task if completed, else the server task) comes out as a JoinError.
C6_ServerWhenRelayRuns ==
    [][polls' # polls =>
          /\ relayTask \notin Finished =>
                IF serverTask \in Finished
                THEN handleState' = "resolved" /\ result' = OutcomeOf(serverTask)
                ELSE /\ handleState' = "awaiting"
                     /\ result' = "none"
                     /\ resolveCount' = resolveCount
          /\ (relayTask \notin Finished /\ serverTask \in {"Panic", "Cancelled"}) =>
                result' \in JoinErrors
          /\ relayTask \in {"Panic", "Cancelled"} => result' \in JoinErrors]_vars

C6_Witness ==
    /\ handleState = "resolved"
    /\ relayTask = "running"
    /\ serverTask = "Panic"
    /\ result = "JoinError(Panic)"
    /\ serverPolls = 2

\* C7: the handle stays pending while both tasks run, and once a task has
\* completed an awaited handle is eventually resolved (unless the caller
\* drops it first).
C7_EventuallyResolves ==
    /\ [](handleState = "resolved" =>
            (relayTask \in Finished \/ serverTask \in Finished))
    /\ (handleState = "awaiting" /\ (relayTask \in Finished \/ serverTask \in Finished))
          ~> (handleState \in {"resolved", "dropped"})

C7_Witness ==
    /\ handleState = "resolved"
    /\ polls = 2
    /\ relayTask = "running"
    /\ serverTask = "Ok"
    /\ Len(calls) >= 1

\* C8: at most one on_slot call is in flight, and a new on_slot call is
\* issued only when no call is in flight (a call that never completes stalls
\* the loop).
C8_NoOverlap ==
    [][/\ inflight <= 1
       /\ inflight' <= 1
       /\ Len(calls') > Len(calls) => (inflight = 0 /\ loopPc = "next")]_vars

C8_Witness == Len(calls) >= 2 /\ inflight = 1

\* C9: on_slot is called once for every slot the stream produced, in arrival
\* order, none skipped or repeated, so the slot arguments strictly increase.
C9_EverySlotInOrder ==
    /\ Len(calls) = Len(produced)
    /\ \A i \in 1 .. Len(calls) : calls[i].slot = produced[i]
    /\ \A i, j \in 1 .. Len(calls) : i < j => calls[i].slot < calls[j].slot

C9_Witness ==
    /\ Len(calls) >= 3
    /\ calls[2].slot > calls[1].slot + 1
    /\ epoch_for(calls[3].slot) = epoch_for(calls[2].slot)

\* C10: initialize() is called exactly once and has completed before either
\* task is spawned; the genesis fetch precedes Relay construction; the server
\* task is spawned before the slot task; no on_slot call and no API request
\* happens before initialize() completed.
C10_InitBeforeTasks ==
    /\ initCalls <= 1 /\ relayNew <= 1
    /\ relayNew > 0 => genesisFetched
    /\ initCalls > 0 => relayNew = 1
    /\ serverTask # "none" => (initCalls = 1 /\ initDone = 1)
    /\ relayTask # "none" => (initDone = 1 /\ serverTask # "none")
    /\ (Len(calls) > 0 \/ apiServed > 0) => initDone = 1
    /\ spawnPc = "ok" => initCalls = 1

C10_Witness == spawnPc = "ok" /\ Len(calls) > 0 /\ apiServed > 0 /\ initDone = 1

\* C11: the poll that resolves the handle leaves both tasks as they were:
\* the task that did not win is neither cancelled nor otherwise changed.
C11_LoserUnaffected ==
    [][resolveCount' # resolveCount =>
          /\ relayTask' = relayTask
          /\ serverTask' = serverTask
          /\ loopPc' = loopPc
          /\ inflight' = inflight
          /\ apiServed' = apiServed]_vars

C11_Witness ==
    /\ handleState = "resolved"
    /\ result = OutcomeOf(serverTask)
    /\ serverTask \in Finished
    /\ relayTask = "running"
    /\ slotAfterRelease

\* The slot loop is at slots.next() with a stream that has a slot to yield.
LoopCanTake ==
    relayTask = "running" /\ loopPc = "next" /\ ~streamClosed /\ NextSlots # {}

\* C12: dropping an unresolved handle changes neither task, and afterwards
\* the slot loop can still deliver on_slot calls and the server can still
\* serve requests.
C12_DropDetaches ==
    /\ [][(handleState' = "dropped" /\ handleState # "dropped") =>
             /\ relayTask' = relayTask
             /\ serverTask' = serverTask
             /\ loopPc' = loopPc
             /\ inflight' = inflight]_vars
    /\ [](handleState = "dropped" =>
             /\ LoopCanTake => ENABLED (\E slot \in 0 .. MaxSlot : LoopIter(slot))
             /\ (serverTask = "running" /\ apiServed < MaxRequests) =>
                   ENABLED ApiRequest)

C12_Witness ==
    /\ handleState = "dropped"
    /\ relayTask = "running"
    /\ serverTask = "running"
    /\ slotAfterRelease
    /\ apiAfterRelease

\* Slot of the latest on_slot call issued (-1: none yet).
LastNotified == IF calls = <<>> THEN -1 ELSE calls[Len(calls)].slot

\* C13: one Relay instance is constructed per spawn, the slot task and the
\* server hold handles to that same instance, and an API request observes
\* the state the slot loop's latest on_slot call left in it.
C13_SharedRelay ==
    /\ [](/\ Len(relayStore) <= 1
          /\ Len(relayStore) = relayNew
          /\ serverTask # "none" => (serverRelay = loopRelay /\ loopRelay = 1)
          /\ relayTask # "none" => (serverRelay = loopRelay /\ loopRelay = 1))
    /\ [][apiServed' # apiServed => apiSeen' = LastNotified]_vars

C13_Witness ==
    /\ apiSeen >= 0
    /\ apiSeen = LastNotified
    /\ loopPc = "on_slot"
    /\ inflight = 1
    /\ Len(calls) >= 2

\* C14: a malformed beacon_node_url makes Service::from itself fail: no
\* Service exists for it, spawn never starts on it, and no beacon-node
\* query is issued before spawn.
C14_UrlFailureAtConstruction ==
    /\ cfgSource # "none" =>
          /\ config.beacon_node_url = "not a url" => svc = "panicked"
          /\ svc = "built" =>
                config.beacon_node_url \in {"http://127.0.0.1:5052",
                                            "http://localhost:5052"}
    /\ svc # "built" => (spawnPc = "idle" /\ beaconQueries = 0)
    /\ spawnPc = "idle" => beaconQueries = 0

C14_Witness ==
    /\ svc = "panicked"
    /\ cfgSource = "override"
    /\ config.beacon_node_url = "not a url"

\* C15: Config::default() has host 127.0.0.1, port 28545 and
\* beacon_node_url "http://127.0.0.1:5052".
C15_ConfigDefaults ==
    cfgSource = "default" =>
        /\ config.host = <<127, 0, 0, 1>>
        /\ config.port = 28545
        /\ config.beacon_node_url = "http://127.0.0.1:5052"

C15_Witness == cfgSource = "default" /\ svc = "built" /\ spawnPc = "ok"

\* C16 as stated: the slot task has ended only if its stream ended or it was
\* cancelled from outside.
C16_EndsOnlyOnStreamEndOrCancel ==
    relayTask \in Finished =>
        \/ relayTask = "Cancelled"
        \/ relayTask = "Ok" /\ streamClosed

\* C16 as amended: the slot task ends only by the panic at its start when
\* the clock has no current epoch, by the stream ending, or by cancellation;
\* while the stream has slots it does not complete on its own; and once the
\* stream has ended, with every on_slot call returning, the task completes
\* successfully (unless cancelled first).
C16_LoopEnds ==
    /\ [][(relayTask = "running" /\ relayTask' # "running") =>
             \/ relayTask' = "Cancelled"
             \/ /\ relayTask' = "Ok"
                /\ streamClosed
                /\ loopPc = "next"
                /\ inflight = 0
             \/ /\ relayTask' = "Panic"
                /\ loopPc = "start"
                /\ epochMissing']_vars
    /\ (streamClosed /\ relayTask = "running") ~> (relayTask \in {"Ok", "Cancelled"})

C16_Witness ==
    /\ relayTask = "Ok"
    /\ streamClosed
    /\ Len(calls) >= 2
    /\ inflight = 0

\* C17 as stated: when the clock has no current epoch at task start, the
\* task panics with no on_slot call, and spawn has already returned a
\* handle by then.
C17_PanicAfterSpawnReturned ==
    epochMissing =>
        /\ relayTask = "Panic"
        /\ calls = <<>>
        /\ spawnPc = "ok"
        /\ handleState # "none"

\* C17 as amended: the task panics with no slot taken, no on_slot call and
\* no retry; spawn does not fail for it and returns its handle, before or
\* after the panic; a handle resolved by the relay task reports the panic
\* as a JoinError.
C17_MissingEpochPanics ==
    epochMissing =>
        /\ relayTask = "Panic"
        /\ loopPc = "end"
        /\ startEpoch = -1
        /\ calls = <<>>
        /\ produced = <<>>
        /\ inflight = 0
        /\ spawnPc \in {"relay_spawned", "ok"}
        /\ spawnErr = "none"
        /\ spawnPc = "ok" => handleState # "none"
        /\ handleState = "resolved" =>
              \/ result = "JoinError(Panic)"
              \/ serverTask \in Finished /\ result = OutcomeOf(serverTask)

C17_Witness ==
    /\ epochMissing
    /\ handleState = "resolved"
    /\ result = "JoinError(Panic)"
    /\ serverTask = "running"

\* C18: current_epoch never decreases; once read, it is the maximum of the
\* epoch read at loop start and the epochs of the slots consumed so far; it
\* changes only in an iteration whose slot has a strictly greater epoch.
C18_EpochMonotone ==
    /\ [](startEpoch >= 0 =>
            current_epoch = MaxOf({startEpoch} \cup
                                  {epoch_for(calls[j].slot) : j \in 1 .. Len(calls)}))
    /\ [][/\ current_epoch' >= current_epoch
          /\ (startEpoch >= 0 /\ current_epoch' # current_epoch) =>
                /\ Len(calls') = Len(calls) + 1
                /\ epoch_for(calls'[Len(calls')].slot) > current_epoch
                /\ current_epoch' = epoch_for(calls'[Len(calls')].slot)]_vars

C18_Witness ==
    /\ startEpoch = 1
    /\ Len(calls) >= 2
    /\ epoch_for(calls[1].slot) < startEpoch
    /\ current_epoch > startEpoch

\* C19: the flag starts false, so every slot up to the first epoch advance
\* is passed with the flag false; every slot whose epoch exceeds the tracked
\* current_epoch when it is consumed is passed with the flag true.
C19_FlagStartsFalse ==
    /\ (startEpoch >= 0 /\ calls = <<>>) => next_epoch = FALSE
    /\ \A i \in 1 .. Len(calls) :
          /\ (\A j \in 1 .. i : epoch_for(calls[j].slot) <= startEpoch) =>
                calls[i].flag = FALSE
          /\ epoch_for(calls[i].slot) > EpochBefore(i) => calls[i].flag = TRUE

C19_Witness ==
    /\ Len(calls) >= 3
    /\ calls[1].flag = FALSE
    /\ calls[2].flag = FALSE
    /\ calls[3].flag = TRUE

====
